---- MODULE Spec2Model ----
(***************************************************************************)
(* Career Compass backend (src/app.py): the /generate and /download_pdf    *)
(* handlers, the Gemini plan generator and the PDF renderer, as a state    *)
(* machine over concurrent requests.                                       *)
(***************************************************************************)
EXTENDS Integers, Sequences, FiniteSets, TLC

(***************************************************************************)
(* Bounds of the model.                                                    *)
(***************************************************************************)
\* requests the server handles in one run (threads of the hosting process)
MaxReq == 2

\* the number of week entries the prompt asks the service for
NumWeeks == 8

Requests == 1..MaxReq

(***************************************************************************)
(* Python values, as request.json and json.loads produce them.             *)
(***************************************************************************)
None_ == [t |-> "None"]
B(b) == [t |-> "bool", b |-> b]
N(n) == [t |-> "int", n |-> n]
S(s) == [t |-> "str", s |-> s]
L(q) == [t |-> "list", items |-> q]
D(f) == [t |-> "dict", map |-> f]
EmptyDict == [k \in {} |-> None_]

\* bool(v): the truth value Python's `not v` / `if v` / `a and b` test
Truthy(v) ==
  CASE v.t = "None" -> FALSE
    [] v.t = "bool" -> v.b
    [] v.t = "int"  -> v.n # 0
    [] v.t = "str"  -> v.s # ""
    [] v.t = "list" -> v.items # <<>>
    [] v.t = "dict" -> DOMAIN v.map # {}

\* the text around a needle that the model's strings are cut into
Fragments == {"", "my ", " is ready"}

\* `key in v` is defined for containers only; on int, bool it is a TypeError
SupportsIn(v) == v.t \in {"dict", "list", "str"}

\* `key in v` for a str key: dict membership tests the keys, list membership
\* tests the elements for equality, str membership is the substring test
PyIn(key, v) ==
  CASE v.t = "dict" -> key \in DOMAIN v.map
    [] v.t = "list" -> \E i \in DOMAIN v.items : v.items[i] = S(key)
    [] v.t = "str"  -> \E p \in Fragments, q \in Fragments : p \o key \o q = v.s

\* d.get(key): the value, or None when the key is absent
DictGet(d, key) == IF key \in DOMAIN d.map THEN d.map[key] ELSE None_

(***************************************************************************)
(* JSON text, as the service sends it and jsonify writes it: a document    *)
(* whose objects are member lists in the order of the text.                *)
(***************************************************************************)
Invalid == [j |-> "invalid"]
JNull == [j |-> "null"]
JBool(b) == [j |-> "bool", jb |-> b]
JNum(n) == [j |-> "number", jn |-> n]
JStr(s) == [j |-> "string", js |-> s]
JArr(q) == [j |-> "array", elems |-> q]
JObj(m) == [j |-> "object", members |-> m]

\* the member of an object's text that json.loads keeps for key k: the last
LastMember(m, k) ==
  CHOOSE i \in DOMAIN m :
    /\ m[i][1] = k
    /\ \A i2 \in DOMAIN m : m[i2][1] = k => i2 <= i

\* json.loads on a text that is valid JSON
RECURSIVE Loads(_)
Loads(d) ==
  CASE d.j = "null"   -> None_
    [] d.j = "bool"   -> B(d.jb)
    [] d.j = "number" -> N(d.jn)
    [] d.j = "string" -> S(d.js)
    [] d.j = "array"  -> L([i \in DOMAIN d.elems |-> Loads(d.elems[i])])
    [] d.j = "object" ->
         D([k \in {d.members[i][1] : i \in DOMAIN d.members} |->
              Loads(d.members[LastMember(d.members, k)][2])])

\* the keys of the model in str order, as sort_keys compares them
KeyOrder ==
  << "details", "error", "goal", "hours", "learning_plan", "resources",
     "skillLevel", "skills", "title", "topic", "week" >>

SortedKeys(keys) == SelectSeq(KeyOrder, LAMBDA k : k \in keys)

\* flask.jsonify: json.dumps with sort_keys, the object members in key order
RECURSIVE Dumps(_)
Dumps(v) ==
  CASE v.t = "None" -> JNull
    [] v.t = "bool" -> JBool(v.b)
    [] v.t = "int"  -> JNum(v.n)
    [] v.t = "str"  -> JStr(v.s)
    [] v.t = "list" -> JArr([i \in DOMAIN v.items |-> Dumps(v.items[i])])
    [] v.t = "dict" ->
         LET ks == SortedKeys(DOMAIN v.map)
         IN  JObj([i \in DOMAIN ks |-> << ks[i], Dumps(v.map[ks[i]]) >>])

jsonify(v) == Dumps(v)

(***************************************************************************)
(* Inputs: the environment variable, request bodies, the service's answers *)
(***************************************************************************)
Unset == [t |-> "unset"]

\* os.environ.get("GEMINI_API_KEY"): None when the variable is absent
EnvValues == {None_, S(""), S("key-A"), S("key-B")}

\* the credentials the service accepts
ValidKeys == {S("key-A")}

FullBody ==
  D([goal |-> S("data engineer"), skillLevel |-> S("Beginner"),
     skills |-> L(<<S("sql"), S("python")>>), hours |-> N(5)])

\* request.json of a POST /generate
GenBodies == {None_, FullBody}

Week(w, tp, ds, rs) ==
  JObj(<< <<"week", JStr(w)>>, <<"topic", JStr(tp)>>,
          <<"details", JArr(ds)>>, <<"resources", JArr(rs)>> >>)

OneWeekPlan ==
  JObj(<< <<"learning_plan",
            JArr(<< Week("Week 1", "SQL", <<JStr("joins")>>, <<JStr("docs")>>) >>)>> >>)

\* texts the service answers with when it answers at all
ServiceTexts ==
  { Invalid, JNull, JBool(FALSE), JBool(TRUE), JNum(0), JNum(7),
    JStr(""), JStr("sorry"), JStr("my learning_plan is ready"),
    JArr(<<>>), JArr(<<JNum(1)>>), JArr(<<JStr("learning_plan")>>),
    JObj(<<>>), JObj(<< <<"title", JStr("plan")>> >>),
    JObj(<< <<"learning_plan", JArr(<<>>)>> >>), OneWeekPlan }

\* the answers drawn while several requests are in flight
SampleTexts == {Invalid, JObj(<<>>), OneWeekPlan}

\* what one generate_content round trip can end in
Outcomes(key, texts) ==
  IF key \in ValidKeys
    THEN {[kind |-> "network_error"], [kind |-> "blocked"]}
           \cup {[kind |-> "text", text |-> t] : t \in texts}
    ELSE {[kind |-> "network_error"], [kind |-> "denied"]}

(***************************************************************************)
(* State.                                                                  *)
(***************************************************************************)
VARIABLES
  env,         \* os.environ["GEMINI_API_KEY"], None_ when absent
  configured,  \* the api_key genai.configure last stored, process wide
  pc,          \* where each request's handler stands
  route,       \* the endpoint each request was posted to
  body,        \* request.json
  api_key,     \* generate_ai_plan's local api_key
  prompt,      \* generate_ai_plan's local prompt
  used_key,    \* the credential the client sent with the request's prompt
  sent,        \* the generate_content requests issued for the request
  reply,       \* how the round trip ended
  failure,     \* the failure generate_ai_plan caught, "none" without one
  plan,        \* what generate_ai_plan returned
  invoked,     \* whether create_pdf was called for the request
  resp         \* the handler's result: a response, or the error it raised

vars ==
  << env, configured, pc, route, body, api_key, prompt, used_key, sent,
     reply, failure, plan, invoked, resp >>

locals == << pc, route, body, api_key, prompt, used_key, sent, reply, failure,
             plan, invoked, resp >>

Init ==
  /\ env \in EnvValues
  /\ configured = None_
  /\ pc = [r \in Requests |-> "idle"]
  /\ route = [r \in Requests |-> "none"]
  /\ body = [r \in Requests |-> Unset]
  /\ api_key = [r \in Requests |-> Unset]
  /\ prompt = [r \in Requests |-> Unset]
  /\ used_key = [r \in Requests |-> Unset]
  /\ sent = [r \in Requests |-> 0]
  /\ reply = [r \in Requests |-> Unset]
  /\ failure = [r \in Requests |-> "none"]
  /\ plan = [r \in Requests |-> Unset]
  /\ invoked = [r \in Requests |-> FALSE]
  /\ resp = [r \in Requests |-> Unset]

(***************************************************************************)
(* Responses.                                                              *)
(***************************************************************************)
Response(status, mimetype, headers, content) ==
  [kind |-> "response", status |-> status, mimetype |-> mimetype,
   headers |-> headers, body |-> content]

\* an exception that leaves the handler
Raised(exc) == [kind |-> "raised", exc |-> exc]

JsonBody(doc) == [as |-> "json", doc |-> doc]
TextBody(text) == [as |-> "text", text |-> text]
PdfBody(buffer) == [as |-> "pdf", buffer |-> buffer]

ErrorPayload ==
  D([error |-> S("Failed to generate plan from AI. Check the server logs for details.")])

\* variant: the plan answered without its root object
generate_response_unwrapped(pl) ==
  IF ~Truthy(pl)
    THEN Response(500, "application/json", {}, JsonBody(jsonify(ErrorPayload)))
    ELSE IF ~SupportsIn(pl)
      THEN Raised("TypeError")
      ELSE IF PyIn("learning_plan", pl)
        THEN Response(200, "application/json", {},
                      JsonBody(jsonify(IF pl.t = "dict"
                                         THEN pl.map["learning_plan"] ELSE pl)))
        ELSE Response(500, "application/json", {}, JsonBody(jsonify(ErrorPayload)))

\* generate, lines 109-112
generate_response(pl) ==
  IF ~Truthy(pl)
    THEN Response(500, "application/json", {}, JsonBody(jsonify(ErrorPayload)))
    ELSE IF ~SupportsIn(pl)
      THEN Raised("TypeError")
      ELSE IF PyIn("learning_plan", pl)
        THEN Response(200, "application/json", {}, JsonBody(jsonify(pl)))
        ELSE Response(500, "application/json", {}, JsonBody(jsonify(ErrorPayload)))

(***************************************************************************)
(* generate_ai_plan                                                        *)
(***************************************************************************)
\* variant: the handlers written as `except ValueError`
IsExceptionOnlyValueError(cls) == cls \in {"ValueError", "JSONDecodeError"}

\* the classes `except Exception` catches
IsException(cls) ==
  cls \in {"ValueError", "JSONDecodeError", "ServiceUnavailable", "PermissionDenied"}

\* the exception a round trip's outcome raises in lines 53-56, "none" if none
ExcOf(o) ==
  CASE o.kind = "network_error" -> "ServiceUnavailable"
    [] o.kind = "denied"        -> "PermissionDenied"
    [] o.kind = "blocked"       -> "ValueError"
    [] o.kind = "text"          -> IF o.text = Invalid THEN "JSONDecodeError" ELSE "none"

\* the f-string of lines 35-46: the template with the four values put in
build_prompt(goal, skill_level, skills_to_learn, hours_per_week) ==
  [goal |-> goal, skill_level |-> skill_level,
   skills |-> skills_to_learn, hours |-> hours_per_week]

\* POST /generate arrives; generate reads request.json and its four fields
PostGenerate(r) ==
  /\ pc[r] = "idle"
  /\ \E b \in GenBodies :
       /\ route' = [route EXCEPT ![r] = "/generate"]
       /\ body' = [body EXCEPT ![r] = b]
       /\ IF b.t = "dict"
            THEN /\ pc' = [pc EXCEPT ![r] = "getkey"]
                 /\ resp' = resp
            ELSE /\ pc' = [pc EXCEPT ![r] = "done"]
                 /\ resp' = [resp EXCEPT ![r] = Raised("AttributeError")]
  /\ UNCHANGED << env, configured, api_key, prompt, used_key, sent, reply,
                  failure, plan, invoked >>

\* variant: the credential kept from the call that configured the client
GetApiKeyCached(r) ==
  /\ pc[r] = "getkey"
  /\ api_key' = [api_key EXCEPT ![r] = IF configured # None_ THEN configured ELSE env]
  /\ pc' = [pc EXCEPT ![r] = "configure"]
  /\ UNCHANGED << env, configured, route, body, prompt, used_key, sent, reply,
                  failure, plan, invoked, resp >>

\* line 26
GetApiKey(r) ==
  /\ pc[r] = "getkey"
  /\ api_key' = [api_key EXCEPT ![r] = env]
  /\ pc' = [pc EXCEPT ![r] = "configure"]
  /\ UNCHANGED << env, configured, route, body, prompt, used_key, sent, reply,
                  failure, plan, invoked, resp >>

\* variant: the test written as `api_key is None`
KeyMissingOnlyNone(key) == key = None_

\* `not api_key`, line 27
KeyMissing(key) == ~Truthy(key)

\* lines 27-33, and generate's answer when None comes back
ConfigureClient(r) ==
  /\ pc[r] = "configure"
  /\ IF KeyMissing(api_key[r])
       THEN /\ configured' = configured
            /\ pc' = [pc EXCEPT ![r] = "done"]
            /\ IF IsException("ValueError")
                 THEN /\ failure' = [failure EXCEPT ![r] = "credential"]
                      /\ plan' = [plan EXCEPT ![r] = None_]
                      /\ resp' = [resp EXCEPT ![r] = generate_response(None_)]
                 ELSE /\ resp' = [resp EXCEPT ![r] = Raised("ValueError")]
                      /\ UNCHANGED << failure, plan >>
       ELSE /\ configured' = api_key[r]
            /\ pc' = [pc EXCEPT ![r] = "send"]
            /\ UNCHANGED << failure, plan, resp >>
  /\ UNCHANGED << env, route, body, api_key, prompt, used_key, sent, reply, invoked >>

\* lines 35-53: the prompt is built and generate_content sends it with the
\* credential the process-wide configuration holds at that moment
SendPrompt(r) ==
  /\ pc[r] = "send"
  /\ prompt' = [prompt EXCEPT ![r] =
        build_prompt(DictGet(body[r], "goal"), DictGet(body[r], "skillLevel"),
                     DictGet(body[r], "skills"), DictGet(body[r], "hours"))]
  /\ used_key' = [used_key EXCEPT ![r] = configured]
  /\ sent' = [sent EXCEPT ![r] = @ + 1]
  /\ pc' = [pc EXCEPT ![r] = "await"]
  /\ UNCHANGED << env, configured, route, body, api_key, reply, failure, plan,
                  invoked, resp >>

\* variant: a failed round trip is tried once more
CompleteWithRetry(r, o) ==
  /\ reply' = [reply EXCEPT ![r] = o]
  /\ IF ExcOf(o) = "none"
       THEN /\ plan' = [plan EXCEPT ![r] = Loads(o.text)]
            /\ resp' = [resp EXCEPT ![r] = generate_response(Loads(o.text))]
            /\ failure' = failure
            /\ pc' = [pc EXCEPT ![r] = "done"]
       ELSE IF sent[r] < 2
         THEN /\ failure' = [failure EXCEPT ![r] = o.kind]
              /\ pc' = [pc EXCEPT ![r] = "send"]
              /\ UNCHANGED << plan, resp >>
         ELSE /\ failure' = [failure EXCEPT ![r] = o.kind]
              /\ plan' = [plan EXCEPT ![r] = None_]
              /\ resp' = [resp EXCEPT ![r] = generate_response(None_)]
              /\ pc' = [pc EXCEPT ![r] = "done"]
  /\ UNCHANGED << env, configured, route, body, api_key, prompt, used_key, sent,
                  invoked >>

\* lines 53-63 on outcome o, and generate's answer to what comes back
Complete(r, o) ==
  /\ reply' = [reply EXCEPT ![r] = o]
  /\ IF ExcOf(o) = "none"
       THEN /\ plan' = [plan EXCEPT ![r] = Loads(o.text)]
            /\ resp' = [resp EXCEPT ![r] = generate_response(Loads(o.text))]
            /\ failure' = failure
       ELSE IF IsException(ExcOf(o))
         THEN /\ failure' = [failure EXCEPT ![r] = o.kind]
              /\ plan' = [plan EXCEPT ![r] = None_]
              /\ resp' = [resp EXCEPT ![r] = generate_response(None_)]
         ELSE /\ resp' = [resp EXCEPT ![r] = Raised(ExcOf(o))]
              /\ UNCHANGED << failure, plan >>
  /\ pc' = [pc EXCEPT ![r] = "done"]
  /\ UNCHANGED << env, configured, route, body, api_key, prompt, used_key, sent,
                  invoked >>

\* the round trip of a request ends, other requests being in flight
ReceiveResponse(r) ==
  /\ pc[r] = "await"
  /\ \E o \in Outcomes(used_key[r], SampleTexts) : Complete(r, o)

\* the handler has returned: the response leaves and its locals are gone
Return(r) ==
  /\ pc[r] = "done"
  /\ pc' = [pc EXCEPT ![r] = "idle"]
  /\ route' = [route EXCEPT ![r] = "none"]
  /\ body' = [body EXCEPT ![r] = Unset]
  /\ api_key' = [api_key EXCEPT ![r] = Unset]
  /\ prompt' = [prompt EXCEPT ![r] = Unset]
  /\ used_key' = [used_key EXCEPT ![r] = Unset]
  /\ sent' = [sent EXCEPT ![r] = 0]
  /\ reply' = [reply EXCEPT ![r] = Unset]
  /\ failure' = [failure EXCEPT ![r] = "none"]
  /\ plan' = [plan EXCEPT ![r] = Unset]
  /\ invoked' = [invoked EXCEPT ![r] = FALSE]
  /\ resp' = [resp EXCEPT ![r] = Unset]
  /\ UNCHANGED << env, configured >>

\* the variable changes under the running process
SetEnv ==
  /\ \E v \in EnvValues \ {env} : env' = v
  /\ UNCHANGED << configured, locals >>

(***************************************************************************)
(* create_pdf                                                              *)
(***************************************************************************)
Paragraph(text, style) == [el |-> "Paragraph", text |-> text, style |-> style]
Spacer(width, height) == [el |-> "Spacer", width |-> width, height |-> height]

\* what an f-string puts in for a value: str() of it
Format(v) ==
  CASE v.t = "str" -> v.s
    [] v.t = "int" -> ToString(v.n)

\* the bullet character of lines 83 and 88 (U+2022) and the space after it
BulletMark == "* "

\* the keys a week entry is subscripted with, in the order lines 77-87 do it
WeekKeys == << "week", "topic", "details", "resources" >>

\* the first subscript of lines 77-87 that fails on week_data, 0 if none does
FirstMissing(week_data) ==
  IF \A i \in DOMAIN WeekKeys : WeekKeys[i] \in DOMAIN week_data.map
    THEN 0
    ELSE CHOOSE i \in DOMAIN WeekKeys :
           /\ WeekKeys[i] \notin DOMAIN week_data.map
           /\ \A i2 \in 1..(i - 1) : WeekKeys[i2] \in DOMAIN week_data.map

\* lines 82-83 and 87-88: one Bullet paragraph per entry, in order
Bullets(entries) ==
  [i \in DOMAIN entries |-> Paragraph(BulletMark \o Format(entries[i]), "Bullet")]

\* lines 77-90 for a week entry that has its four keys
WeekSection(week_data) ==
  << Paragraph("<b>" \o Format(week_data.map["week"]) \o ": "
                 \o Format(week_data.map["topic"]) \o "</b>", "h2"),
     Spacer(1, 12),
     Paragraph("<b><u>Plan Details:</u></b>", "Normal") >>
  \o Bullets(week_data.map["details"].items)
  \o << Spacer(1, 12),
        Paragraph("<b><u>Suggested Resources:</u></b>", "Normal") >>
  \o Bullets(week_data.map["resources"].items)
  \o << Spacer(1, 24) >>

\* variant: the loop stops after the NumWeeks entries the prompt asks for
RECURSIVE RenderWeeksCapped(_, _, _)
RenderWeeksCapped(weeks, i, story) ==
  IF i > Len(weeks) \/ i > NumWeeks
    THEN [ok |-> TRUE, story |-> story]
    ELSE IF FirstMissing(weeks[i]) # 0
      THEN [ok |-> FALSE, exc |-> "KeyError", key |-> WeekKeys[FirstMissing(weeks[i])]]
      ELSE RenderWeeksCapped(weeks, i + 1, story \o WeekSection(weeks[i]))

\* the loop of lines 76-90 from week i on, story being what is appended so far
RECURSIVE RenderWeeks(_, _, _)
RenderWeeks(weeks, i, story) ==
  IF i > Len(weeks)
    THEN [ok |-> TRUE, story |-> story]
    ELSE IF FirstMissing(weeks[i]) # 0
      THEN [ok |-> FALSE, exc |-> "KeyError", key |-> WeekKeys[FirstMissing(weeks[i])]]
      ELSE RenderWeeks(weeks, i + 1, story \o WeekSection(weeks[i]))

\* variant: a week entry is read with defaults for the keys it lacks
WithDefaults(week_data) ==
  D([k \in {"week", "topic", "details", "resources"} |->
       IF k \in DOMAIN week_data.map THEN week_data.map[k]
       ELSE IF k \in {"details", "resources"} THEN L(<<>>) ELSE S("")])

\* plan_data.get('learning_plan', [])
LearningPlan(plan_data) ==
  IF "learning_plan" \in DOMAIN plan_data.map
    THEN plan_data.map["learning_plan"].items
    ELSE <<>>

\* variant: create_pdf over entries read with defaults
create_pdf_defaulting(plan_data) ==
  IF plan_data.t # "dict"
    THEN [ok |-> FALSE, exc |-> "AttributeError", key |-> "get"]
    ELSE LET weeks == LearningPlan(plan_data)
             out == RenderWeeks([i \in DOMAIN weeks |-> WithDefaults(weeks[i])], 1,
                      << Paragraph("Your Custom Career Compass Plan", "h1"),
                         Spacer(1, 24) >>)
         IN  [ok |-> TRUE, buffer |-> [pagesize |-> "letter", story |-> out.story]]

\* lines 65-94: the buffer doc.build(story) fills, or the error raised
create_pdf(plan_data) ==
  IF plan_data.t # "dict"
    THEN [ok |-> FALSE, exc |-> "AttributeError", key |-> "get"]
    ELSE LET out == RenderWeeks(LearningPlan(plan_data), 1,
                      << Paragraph("Your Custom Career Compass Plan", "h1"),
                         Spacer(1, 24) >>)
         IN  IF out.ok
               THEN [ok |-> TRUE,
                     buffer |-> [pagesize |-> "letter", story |-> out.story]]
               ELSE out

(***************************************************************************)
(* download_pdf                                                            *)
(***************************************************************************)
PdfHeaders == { <<"Content-Disposition", "attachment;filename=Career_Compass_Plan.pdf">> }

\* variant: the test written as `plan_data is None`
PayloadMissingOnlyNone(plan_data) == plan_data = None_

\* `not plan_data`, line 117
PayloadMissing(plan_data) == ~Truthy(plan_data)

\* lines 114-124 on the body of a POST /download_pdf, drawn from bodies
download_pdf(r, bodies) ==
  /\ pc[r] = "idle"
  /\ \E b \in bodies :
       /\ route' = [route EXCEPT ![r] = "/download_pdf"]
       /\ body' = [body EXCEPT ![r] = b]
       /\ IF PayloadMissing(b)
            THEN /\ invoked' = invoked
                 /\ resp' = [resp EXCEPT ![r] =
                       Response(400, "text/html", {}, TextBody("Invalid data"))]
            ELSE /\ invoked' = [invoked EXCEPT ![r] = TRUE]
                 /\ resp' = [resp EXCEPT ![r] =
                       IF create_pdf(b).ok
                         THEN Response(200, "application/pdf", PdfHeaders,
                                       PdfBody(create_pdf(b).buffer))
                         ELSE Raised(create_pdf(b).exc)]
  /\ pc' = [pc EXCEPT ![r] = "done"]
  /\ UNCHANGED << env, configured, api_key, prompt, used_key, sent, reply,
                  failure, plan >>

(***************************************************************************)
(* Plans: payloads of /download_pdf and answers of the service.            *)
(***************************************************************************)
\* the weeks of the longest plan laid out
MaxWeeks == 9
\* the weeks of a plan whose entries vary
MaxVariedWeeks == 2
\* the entries of a details list
MaxItems == 2

BSeq(set, n) == UNION {[1..k -> set] : k \in 0..n}

WeekEntry(w, tp, ds, rs) ==
  D([week |-> w, topic |-> tp, details |-> L(ds), resources |-> L(rs)])

PlanOf(weeks) == D([learning_plan |-> L(weeks)])

FixedWeeks ==
  { WeekEntry(S("Week 1"), S("SQL"), <<S("joins"), S("indexes")>>, <<S("docs")>>),
    WeekEntry(N(2), S("Python"), <<S("b"), S("a"), S("b")>>, <<>>) }

VariedWeeks ==
  { WeekEntry(S("Week 1"), S("SQL"), ds, rs) :
      ds \in BSeq({S("a"), S("b")}, MaxItems), rs \in BSeq({S("r")}, 1) }

\* a week entry without key k
Without(week_data, k) ==
  D([x \in DOMAIN week_data.map \ {k} |-> week_data.map[x]])

DefectiveWeeks ==
  { Without(w, WeekKeys[i]) : w \in FixedWeeks, i \in DOMAIN WeekKeys }

LongPlans == { PlanOf(ws) : ws \in BSeq(FixedWeeks, MaxWeeks) }
VariedPlans == { PlanOf(ws) : ws \in BSeq(VariedWeeks, MaxVariedWeeks) }
DefectivePlans ==
  { PlanOf(ws) : ws \in BSeq(FixedWeeks \cup DefectiveWeeks, MaxVariedWeeks) }

\* request.json of a POST /download_pdf
DownloadBodies ==
  { None_, D(EmptyDict), L(<<>>), S(""), N(0), B(FALSE),
    L(<<N(1)>>), S("plan"), D([title |-> S("plan")]),
    Loads(OneWeekPlan) }
    \cup { PlanOf(<<w>>) : w \in DefectiveWeeks }

\* the bodies drawn while several requests are in flight
SampleBodies ==
  { None_, Loads(OneWeekPlan),
    PlanOf(<< Without(Loads(OneWeekPlan).map["learning_plan"].items[1], "resources") >>) }

RenderPayloads == LongPlans \cup VariedPlans \cup DefectivePlans

(***************************************************************************)
(* The server: requests handled concurrently.                              *)
(***************************************************************************)
PostDownloadPdf(r) == download_pdf(r, SampleBodies)

Next ==
  \/ \E r \in Requests : PostGenerate(r)
  \/ \E r \in Requests : GetApiKey(r)
  \/ \E r \in Requests : ConfigureClient(r)
  \/ \E r \in Requests : SendPrompt(r)
  \/ \E r \in Requests : ReceiveResponse(r)
  \/ \E r \in Requests : PostDownloadPdf(r)
  \/ \E r \in Requests : Return(r)
  \/ SetEnv

Spec == Init /\ [][Next]_vars

(***************************************************************************)
(* The renderer alone: one request after another, any plan as payload.     *)
(***************************************************************************)
RenderPlan(r) == download_pdf(r, RenderPayloads)

NextRender ==
  \/ RenderPlan(1)
  \/ Return(1)

SpecRender == Init /\ [][NextRender]_vars

(***************************************************************************)
(* One request at a time, every answer of the service and every payload.   *)
(***************************************************************************)
WeekDocs ==
  { Week("Week 1", "SQL", <<JStr("joins"), JStr("indexes")>>, <<JStr("docs")>>),
    JObj(<< <<"topic", JStr("Python")>>, <<"resources", JArr(<<>>)>>,
            <<"details", JArr(<<JStr("b"), JStr("a"), JStr("b")>>)>>,
            <<"week", JStr("Week 2")>> >>) }

\* the plans the prompt asks for: NumWeeks week objects under learning_plan
EightWeekPlans ==
  { JObj(<< <<"learning_plan", JArr(ws)>> >>) : ws \in [1..NumWeeks -> WeekDocs] }
    \cup { JObj(<< <<"title", JStr("plan")>>, <<"learning_plan", JArr(ws)>> >>) :
             ws \in [1..NumWeeks -> WeekDocs] }

NoneInFlight == \A r \in Requests : pc[r] = "idle"

SeqGenerate(r) == NoneInFlight /\ PostGenerate(r)

SeqDownloadPdf(r) == NoneInFlight /\ download_pdf(r, DownloadBodies)

ReceiveAnswer(r) ==
  /\ pc[r] = "await"
  /\ \E o \in Outcomes(used_key[r], ServiceTexts \cup EightWeekPlans) : Complete(r, o)

NextSeq ==
  \/ \E r \in Requests : SeqGenerate(r)
  \/ \E r \in Requests : GetApiKey(r)
  \/ \E r \in Requests : ConfigureClient(r)
  \/ \E r \in Requests : SendPrompt(r)
  \/ \E r \in Requests : ReceiveAnswer(r)
  \/ \E r \in Requests : SeqDownloadPdf(r)
  \/ \E r \in Requests : Return(r)
  \/ SetEnv

SpecSeq == Init /\ [][NextSeq]_vars

(***************************************************************************)
(* Properties.                                                             *)
(***************************************************************************)
Done(r, rt) == pc[r] = "done" /\ route[r] = rt

\* the variable was absent or empty when the call read it
MissingCredential(key) == key = None_ \/ key = S("")

\* the round trip of request r ended in one of the failures of section 4.2
RoundTripFailed(r) ==
  /\ reply[r] # Unset
  /\ \/ reply[r].kind \in {"network_error", "denied", "blocked"}
     \/ reply[r].kind = "text" /\ reply[r].text = Invalid

\* the service answered request r with a text that is JSON
AnsweredJson(r) ==
  /\ reply[r] # Unset
  /\ reply[r].kind = "text"
  /\ reply[r].text # Invalid

\* the 500 answer of /generate, as it goes over the wire
FailureResponse ==
  Response(500, "application/json", {},
    JsonBody(JObj(<< <<"error",
      JStr("Failed to generate plan from AI. Check the server logs for details.")>> >>)))

HasMember(doc, k) ==
  doc.j = "object" /\ \E i \in DOMAIN doc.members : doc.members[i][1] = k

MemberOf(doc, k) == doc.members[LastMember(doc.members, k)][2]

\* two JSON texts denote the same structure: the same members under the same
\* names, the same elements in the same order, the same scalars
RECURSIVE SameJson(_, _)
SameJson(a, b) ==
  /\ a.j = b.j
  /\ CASE a.j = "object" ->
            /\ {a.members[i][1] : i \in DOMAIN a.members}
                 = {b.members[i][1] : i \in DOMAIN b.members}
            /\ Len(a.members) = Cardinality({a.members[i][1] : i \in DOMAIN a.members})
            /\ \A i \in DOMAIN b.members :
                 SameJson(MemberOf(a, b.members[i][1]), MemberOf(b, b.members[i][1]))
       [] a.j = "array" ->
            /\ Len(a.elems) = Len(b.elems)
            /\ \A i \in DOMAIN a.elems : SameJson(a.elems[i], b.elems[i])
       [] OTHER -> a = b

IsStringArray(doc) ==
  doc.j = "array" /\ \A i \in DOMAIN doc.elems : doc.elems[i].j = "string"

IsWeekDoc(doc) ==
  /\ \A k \in {"week", "topic", "details", "resources"} : HasMember(doc, k)
  /\ MemberOf(doc, "week").j = "string"
  /\ MemberOf(doc, "topic").j = "string"
  /\ IsStringArray(MemberOf(doc, "details"))
  /\ IsStringArray(MemberOf(doc, "resources"))

ValidEightWeekPlan(doc) ==
  /\ HasMember(doc, "learning_plan")
  /\ MemberOf(doc, "learning_plan").j = "array"
  /\ Len(MemberOf(doc, "learning_plan").elems) = NumWeeks
  /\ \A i \in 1..NumWeeks : IsWeekDoc(MemberOf(doc, "learning_plan").elems[i])

\* C1: every failure of a generation call (missing credential, network
\* failure, text that is not JSON, content-safety rejection, refused
\* credential) is caught: generate_ai_plan returns None, nothing is raised, and
\* /generate answers 500 with the one error payload whatever the failure was.
C1_FailuresAreOneGeneric500 ==
  \A r \in Requests :
    (Done(r, "/generate") /\ (MissingCredential(api_key[r]) \/ RoundTripFailed(r)))
      => /\ plan[r] = None_
         /\ resp[r] = FailureResponse

C1_Witness ==
  \E r \in Requests :
    /\ Done(r, "/generate")
    /\ RoundTripFailed(r)
    /\ reply[r].kind = "blocked"
    /\ plan[r] = None_
    /\ resp[r] = FailureResponse

\* C2: a call that read an absent or empty credential returns the failure
\* result in its next step, which configures no client, builds no prompt and
\* sends nothing; no request to the service exists for that call afterwards.
C2_NoCredentialNoRequest ==
  /\ [](\A r \in Requests :
          (MissingCredential(api_key[r]) /\ pc[r] # "configure")
            => /\ pc[r] = "done"
               /\ plan[r] = None_
               /\ sent[r] = 0
               /\ prompt[r] = Unset
               /\ used_key[r] = Unset
               /\ reply[r] = Unset)
  /\ [][\A r \in Requests :
          (MissingCredential(api_key[r]) /\ pc[r] = "configure" /\ pc'[r] # "configure")
            => /\ configured' = configured
               /\ sent'[r] = 0
               /\ pc'[r] = "done"]_vars

C2_Witness ==
  \E r \in Requests :
    /\ Done(r, "/generate")
    /\ api_key[r] = S("")
    /\ plan[r] = None_
    /\ sent[r] = 0

\* C3: whenever the service answers with JSON that has no top-level key
\* learning_plan (an object without it, an array, a string, a number, a
\* boolean, null), /generate answers 500 with the error payload.
C3_MissingRootKeyIs500 ==
  \A r \in Requests :
    (Done(r, "/generate") /\ AnsweredJson(r) /\ ~HasMember(reply[r].text, "learning_plan"))
      => resp[r] = FailureResponse

\* C4: when the service answers with a valid plan of NumWeeks weeks, /generate
\* answers 200 and the body is that structure: the same root members, the
\* same weeks in the same order, the same week, topic, details and resources.
C4_ValidPlanIsReturnedAsIs ==
  \A r \in Requests :
    (Done(r, "/generate") /\ AnsweredJson(r) /\ ValidEightWeekPlan(reply[r].text))
      => /\ resp[r].kind = "response"
         /\ resp[r].status = 200
         /\ resp[r].body.as = "json"
         /\ SameJson(resp[r].body.doc, reply[r].text)
         /\ \A i \in 1..NumWeeks :
              \A k \in {"week", "topic", "details", "resources"} :
                MemberOf(MemberOf(resp[r].body.doc, "learning_plan").elems[i], k)
                  = MemberOf(MemberOf(reply[r].text, "learning_plan").elems[i], k)

C4_Witness ==
  \E r \in Requests :
    /\ Done(r, "/generate")
    /\ AnsweredJson(r)
    /\ ValidEightWeekPlan(reply[r].text)
    /\ HasMember(reply[r].text, "title")
    /\ MemberOf(reply[r].text, "learning_plan").elems[1]
         # MemberOf(reply[r].text, "learning_plan").elems[2]
    /\ resp[r].kind = "response"
    /\ resp[r].status = 200

\* a payload that is absent (null) or an empty object, array or string
EmptyOrAbsent(b) ==
  b = None_ \/ b = D(EmptyDict) \/ b = L(<<>>) \/ b = S("")

\* a payload that is an object, array or string with something in it
NonEmpty(b) ==
  \/ b.t = "dict" /\ DOMAIN b.map # {}
  \/ b.t = "list" /\ Len(b.items) > 0
  \/ b.t = "str" /\ b.s # ""

\* C5: /download_pdf answers an empty or absent payload with 400 and the text
\* "Invalid data" without calling create_pdf; for a non-empty payload it calls
\* create_pdf and, when that returns, answers 200 with application/pdf and the
\* Content-Disposition attachment header naming Career_Compass_Plan.pdf.
C5_EmptyPayloadIs400 ==
  \A r \in Requests :
    Done(r, "/download_pdf")
      => /\ EmptyOrAbsent(body[r])
              => /\ ~invoked[r]
                 /\ resp[r].kind = "response"
                 /\ resp[r].status = 400
                 /\ resp[r].body = TextBody("Invalid data")
         /\ NonEmpty(body[r])
              => /\ invoked[r]
                 /\ resp[r].kind = "response"
                      => /\ resp[r].status = 200
                         /\ resp[r].mimetype = "application/pdf"
                         /\ resp[r].body.as = "pdf"
                         /\ <<"Content-Disposition",
                              "attachment;filename=Career_Compass_Plan.pdf">>
                              \in resp[r].headers

C5_Witness ==
  \E r \in Requests :
    /\ Done(r, "/download_pdf")
    /\ body[r] = D(EmptyDict)
    /\ ~invoked[r]
    /\ resp[r].status = 400

\* the payload is a plan one of whose week entries lacks one of the four keys
HasDefectiveWeek(b) ==
  /\ b.t = "dict"
  /\ "learning_plan" \in DOMAIN b.map
  /\ \E i \in DOMAIN b.map["learning_plan"].items :
       ~({"week", "topic", "details", "resources"}
           \subseteq DOMAIN b.map["learning_plan"].items[i].map)

\* C6: when a week entry of the payload lacks week, topic, details or
\* resources, create_pdf raises KeyError: no buffer comes back, and the error
\* leaves the /download_pdf handler as it is, not as a 400 or an error payload.
C6_MissingKeyRaises ==
  \A r \in Requests :
    (Done(r, "/download_pdf") /\ HasDefectiveWeek(body[r]))
      => /\ invoked[r]
         /\ resp[r] = Raised("KeyError")

C6_Witness ==
  \E r \in Requests :
    /\ Done(r, "/download_pdf")
    /\ HasDefectiveWeek(body[r])
    /\ Len(body[r].map["learning_plan"].items) = 2
    /\ DOMAIN body[r].map["learning_plan"].items[1].map
         = {"week", "topic", "details", "resources"}
    /\ "resources" \notin DOMAIN body[r].map["learning_plan"].items[2].map
    /\ resp[r] = Raised("KeyError")

\* the payload is a plan all of whose week entries have the four keys
WellFormedPlan(b) ==
  /\ b.t = "dict"
  /\ "learning_plan" \in DOMAIN b.map
  /\ ~HasDefectiveWeek(b)

\* the text and style of the paragraphs of a story, in order
Laid(story) ==
  LET paragraphs == SelectSeq(story, LAMBDA e : e.el = "Paragraph")
  IN  [i \in DOMAIN paragraphs |-> << paragraphs[i].text, paragraphs[i].style >>]

BulletsOf(entries) ==
  [i \in DOMAIN entries |-> << BulletMark \o Format(entries[i]), "Bullet" >>]

\* what section 4.3 lays out for the weeks, first to last
RECURSIVE ExpectedLayout(_)
ExpectedLayout(weeks) ==
  IF weeks = <<>>
    THEN <<>>
    ELSE << << "<b>" \o Format(Head(weeks).map["week"]) \o ": "
                 \o Format(Head(weeks).map["topic"]) \o "</b>", "h2" >>,
            << "<b><u>Plan Details:</u></b>", "Normal" >> >>
         \o BulletsOf(Head(weeks).map["details"].items)
         \o << << "<b><u>Suggested Resources:</u></b>", "Normal" >> >>
         \o BulletsOf(Head(weeks).map["resources"].items)
         \o ExpectedLayout(Tail(weeks))

\* C7: for a well-formed plan of any number of weeks the paragraphs laid out
\* are the title, then for each week in input order its heading, the Plan
\* Details label, one bullet per details entry in order, the Suggested
\* Resources label and one bullet per resources entry in order.
C7_LayoutFollowsThePlan ==
  \A r \in Requests :
    (Done(r, "/download_pdf") /\ WellFormedPlan(body[r]))
      => /\ resp[r].kind = "response"
         /\ resp[r].status = 200
         /\ resp[r].body.as = "pdf"
         /\ Laid(resp[r].body.buffer.story)
              = << << "Your Custom Career Compass Plan", "h1" >> >>
                  \o ExpectedLayout(body[r].map["learning_plan"].items)

C7_Witness ==
  \E r \in Requests :
    /\ Done(r, "/download_pdf")
    /\ WellFormedPlan(body[r])
    /\ Len(body[r].map["learning_plan"].items) > NumWeeks
    /\ body[r].map["learning_plan"].items[1] = body[r].map["learning_plan"].items[3]
    /\ body[r].map["learning_plan"].items[1] # body[r].map["learning_plan"].items[2]
    /\ resp[r].kind = "response"
    /\ resp[r].status = 200

\* C8: each call reads the variable when it runs: the api_key it tests is the
\* value of the variable at its read, it fails for a missing credential
\* exactly when that value is absent or empty, whatever earlier calls
\* configured, and otherwise it configures and sends with that value.
C8_CredentialReadPerCall ==
  [][\A r \in Requests :
       /\ (pc[r] = "getkey" /\ pc'[r] # "getkey") => api_key'[r] = env
       /\ (pc[r] = "configure" /\ pc'[r] # "configure")
            => /\ (pc'[r] = "done" /\ failure'[r] = "credential" /\ plan'[r] = None_)
                    <=> MissingCredential(api_key[r])
               /\ ~MissingCredential(api_key[r])
                    => (pc'[r] = "send" /\ configured' = api_key[r])
       /\ (pc[r] = "send" /\ pc'[r] # "send") => used_key'[r] = api_key[r]]_vars

C8_Witness ==
  \E r \in Requests :
    /\ Done(r, "/generate")
    /\ configured = S("key-A")
    /\ env = None_
    /\ api_key[r] = None_
    /\ failure[r] = "credential"

\* C9: a /generate request sends at most one request to the service, and once
\* its round trip has failed nothing more is sent for it before it answers.
C9_NoRetry ==
  /\ [](\A r \in Requests : sent[r] <= 1)
  /\ [][\A r \in Requests :
          (reply[r] # Unset /\ pc'[r] # "idle") => sent'[r] = sent[r]]_vars

C9_Witness ==
  \E r \in Requests :
    /\ Done(r, "/generate")
    /\ RoundTripFailed(r)
    /\ reply[r].kind = "network_error"
    /\ sent[r] = 1
    /\ resp[r] = FailureResponse

\* C10: the credential sent with a request's prompt is the one that request
\* read, and a request that read a credential the service accepts is not
\* refused, whatever other requests configure while it is in flight.
C10_RequestsDoNotInterfere ==
  \A r \in Requests :
    /\ used_key[r] # Unset => used_key[r] = api_key[r]
    /\ (reply[r] # Unset /\ api_key[r] \in ValidKeys) => reply[r].kind # "denied"

====
